---------------------------- MODULE Spec2Model ----------------------------
(***************************************************************************)
(* Weekly opportunity finder (src/main.py): one run of main().  The run    *)
(* loads the configuration, calls the enabled extractors one after the     *)
(* other (one HTTP request per keyword or per generic site), deduplicates, *)
(* ranks and truncates the listings, renders the digest and sends it.      *)
(*                                                                         *)
(* Text is modelled as sequences of one-character strings, so that         *)
(* lower-casing, substring search, prefix tests and the location regular   *)
(* expressions are computed character by character as the code does.  An   *)
(* HTML page is modelled by the candidate nodes that BeautifulSoup hands   *)
(* to the extraction loop: each node has the href of its anchor, the       *)
(* anchor's text and the text of the enclosing block.  The organisation    *)
(* and deadline fields of a listing are not modelled.                      *)
(***************************************************************************)
EXTENDS Integers, Sequences, FiniteSets, TLC

VARIABLES
    pc,       \* where main() is
    cfg,      \* the Config that load_config returned
    src,      \* gather_results: the position in ExtractorOrder of the extractor that runs
    kw,       \* the extractor that runs: the position of its next keyword (or site)
    results,  \* `results` of the extractor that runs, or that returned last
    items,    \* gather_results: `items` before line 345
    ranked,   \* what gather_results returned
    email,    \* the parts of the body that build_html_email returned
    trace,    \* the requests, sleeps and sends so far, in order
    err       \* the error that ended the run

vars == <<pc, cfg, src, kw, results, items, ranked, email, trace, err>>

(***************************************************************************)
(* Bounds of the model.                                                    *)
(***************************************************************************)
MaxKeywords == 2
MaxPerSite == 2
MaxTotal == 1
MaxSites == 1
MaxRequests == 2

(***************************************************************************)
(* Python str operations.                                                  *)
(***************************************************************************)
UpperChars == <<"A","B","C","D","E","F","G","H","I","J","K","L","M","N","O","P","Q","R","S","T","U","V","W","X","Y","Z">>
LowerChars == <<"a","b","c","d","e","f","g","h","i","j","k","l","m","n","o","p","q","r","s","t","u","v","w","x","y","z">>
AsciiChars == <<" ","!","#","$","%","&","'","(",")","*","+",",","-",".","/","0","1","2","3","4","5","6","7","8","9",":",";","<","=",">","?","@","A","B","C","D","E","F","G","H","I","J","K","L","M","N","O","P","Q","R","S","T","U","V","W","X","Y","Z","[","]","^","_","a","b","c","d","e","f","g","h","i","j","k","l","m","n","o","p","q","r","s","t","u","v","w","x","y","z","{","|","}","~">>

Min(S) == CHOOSE x \in S : \A y \in S : x <= y

\* str.lower() on one character
LowerMap ==
    [c \in {AsciiChars[i] : i \in DOMAIN AsciiChars} |->
        IF \E i \in DOMAIN UpperChars : UpperChars[i] = c
        THEN LowerChars[CHOOSE i \in DOMAIN UpperChars : UpperChars[i] = c]
        ELSE c]

lower_char(c) == LowerMap[c]

\* str.lower()
lower(s) == [i \in 1..Len(s) |-> lower_char(s[i])]

\* the rank of ord(c) among the printable ASCII characters listed above
OrdMap ==
    [c \in {AsciiChars[i] : i \in DOMAIN AsciiChars} |->
        CHOOSE i \in DOMAIN AsciiChars : AsciiChars[i] = c]

ord(c) == OrdMap[c]

\* a < b on str: lexicographic by code point
str_lt(a, b) ==
    LET n == IF Len(a) < Len(b) THEN Len(a) ELSE Len(b)
        d == {i \in 1..n : a[i] # b[i]}
    IN  IF d = {} THEN Len(a) < Len(b) ELSE ord(a[Min(d)]) < ord(b[Min(d)])

\* sub in s
contains(sub, s) ==
    \E i \in 0..(Len(s) - Len(sub)) : \A j \in 1..Len(sub) : s[i + j] = sub[j]

\* s.startswith(p)
startswith(s, p) ==
    Len(s) >= Len(p) /\ \A j \in 1..Len(p) : s[j] = p[j]

\* s.strip()
strip(s) ==
    LET keep == {i \in 1..Len(s) : s[i] # " "}
    IN  IF keep = {} THEN <<>>
        ELSE SubSeq(s, Min(keep), CHOOSE x \in keep : \A y \in keep : y <= x)

\* re.search(r"(a1|a2|...)", text, flags=re.I): the leftmost position at which
\* an alternative matches, and there the first alternative that does
match_at(alt, text, i) ==
    /\ i + Len(alt) - 1 <= Len(text)
    /\ \A j \in 1..Len(alt) : lower_char(text[i + j - 1]) = lower_char(alt[j])

re_search(alts, text) ==
    LET hits == {i \in 1..Len(text) : \E a \in DOMAIN alts : match_at(alts[a], text, i)}
    IN  IF hits = {} THEN [found |-> FALSE, group |-> <<>>]
        ELSE LET i == Min(hits)
                 a == Min({b \in DOMAIN alts : match_at(alts[b], text, i)})
             IN  [found |-> TRUE, group |-> SubSeq(text, i, i + Len(alts[a]) - 1)]

(***************************************************************************)
(* utils                                                                   *)
(***************************************************************************)
\* requests.get outcomes: an exception, or a response with a status and a
\* body.  A body is empty ("") or a page with candidate nodes.
None == [is_none |-> TRUE, empty |-> TRUE, nodes |-> <<>>]

Text(empty, nodes) == [is_none |-> FALSE, empty |-> empty, nodes |-> nodes]

http_get(r) ==
    IF r.exc THEN None
    ELSE IF r.status # 200 THEN None
    ELSE r.text

\* `not html_text`
falsy(html_text) == html_text.is_none \/ html_text.empty

text_matches_keywords(text, keywords) ==
    LET t == lower(text)
        hit(k) == contains(k, t)
    IN  SelectSeq(keywords, hit)

UkGazetteer ==
    << <<"u","k">>, <<"u","n","i","t","e","d"," ","k","i","n","g","d","o","m">>, <<"e","n","g","l","a","n","d">>, <<"s","c","o","t","l","a","n","d">>, <<"w","a","l","e","s">>,
       <<"n","o","r","t","h","e","r","n"," ","i","r","e","l","a","n","d">>, <<"l","o","n","d","o","n">>, <<"o","x","f","o","r","d">>, <<"c","a","m","b","r","i","d","g","e">>,
       <<"m","a","n","c","h","e","s","t","e","r">>, <<"e","d","i","n","b","u","r","g","h">>, <<"g","l","a","s","g","o","w">>, <<"b","r","i","s","t","o","l">>, <<"l","e","e","d","s">>,
       <<"b","i","r","m","i","n","g","h","a","m">>, <<"s","h","e","f","f","i","e","l","d">> >>

looks_uk(location_text) ==
    LET t == lower(location_text)
    IN  \E x \in DOMAIN UkGazetteer : contains(UkGazetteer[x], t)

london_bias_score(location_text) ==
    IF contains(<<"l","o","n","d","o","n">>, lower(location_text)) THEN 1 ELSE 0

\* dedupe gone wrong: the last listing with a link is kept
dedupe_keep_last(its) ==
    LET last(i) == \A j \in (i + 1)..Len(its) : its[j].link # its[i].link
        pos == {i \in 1..Len(its) : its[i].link # <<>> /\ last(i)}
        nth(n) == CHOOSE i \in pos : Cardinality({x \in pos : x <= i}) = n
    IN  [n \in 1..Cardinality(pos) |-> its[nth(n)]]

\* dedupe(items, key=lambda it: it.link)
dedupe(its) ==
    LET F[i \in 0..Len(its)] ==
            IF i = 0 THEN [seen |-> {}, out |-> <<>>]
            ELSE LET k == its[i].link
                 IN  IF k # <<>> /\ k \notin F[i - 1].seen
                     THEN [seen |-> F[i - 1].seen \cup {k},
                           out |-> Append(F[i - 1].out, its[i])]
                     ELSE F[i - 1]
    IN  F[Len(its)].out

\* the sort key gone wrong: no source identifier
sort_key_no_source(it) ==
    << 0 - london_bias_score(it.location), 0 - Len(it.matched_keywords), <<>> >>

\* the sort key of gather_results, and < on these tuples
sort_key(it) ==
    << 0 - london_bias_score(it.location), 0 - Len(it.matched_keywords), it.source >>

key_lt(a, b) ==
    \/ a[1] < b[1]
    \/ a[1] = b[1] /\ a[2] < b[2]
    \/ a[1] = b[1] /\ a[2] = b[2] /\ str_lt(a[3], b[3])

\* list.sort(key=...): stable, ascending in the key
insert_sorted(out, it) ==
    LET after == {i \in 1..Len(out) : key_lt(sort_key(it), sort_key(out[i]))}
        p == IF after = {} THEN Len(out) + 1 ELSE Min(after)
    IN  SubSeq(out, 1, p - 1) \o <<it>> \o SubSeq(out, p, Len(out))

sort_items(its) ==
    LET F[i \in 0..Len(its)] ==
            IF i = 0 THEN <<>> ELSE insert_sorted(F[i - 1], its[i])
    IN  F[Len(its)]

\* s[:n]
slice_to(s, n) ==
    IF n >= 0 THEN SubSeq(s, 1, IF n < Len(s) THEN n ELSE Len(s))
    ELSE SubSeq(s, 1, IF Len(s) + n > 0 THEN Len(s) + n ELSE 0)

\* the truncation gone wrong: one listing too many
truncate_off_by_one(its, total) ==
    IF total # 0 /\ Len(its) > total THEN slice_to(its, total + 1) ELSE its

\* `if cfg.total and len(items) > cfg.total: items = items[: cfg.total]`
truncate(its, total) ==
    IF total # 0 /\ Len(its) > total THEN slice_to(its, total) ELSE its

\* lines 345-349 of gather_results
rank(its, total) == truncate(sort_items(dedupe(its)), total)

(***************************************************************************)
(* The six extractors.  The five keyword-driven ones share one loop shape  *)
(* and differ in the items below.                                          *)
(***************************************************************************)
\* the calls of gather_results gone wrong: EURAXESS first
ExtractorOrderEuraxessFirst ==
    << "euraxess", "findaphd", "jobs_ac_uk", "psychedelic_alpha", "nature_careers",
       "generic_sites" >>

ExtractorOrder ==
    << "findaphd", "jobs_ac_uk", "psychedelic_alpha", "nature_careers",
       "euraxess", "generic_sites" >>

KeywordSources ==
    {"findaphd", "jobs_ac_uk", "psychedelic_alpha", "nature_careers", "euraxess"}

\* Item.source
Label(s) ==
    CASE s = "findaphd" -> <<"F","i","n","d","A","P","h","D">>
      [] s = "jobs_ac_uk" -> <<"j","o","b","s",".","a","c",".","u","k">>
      [] s = "psychedelic_alpha" -> <<"P","s","y","c","h","e","d","e","l","i","c"," ","A","l","p","h","a">>
      [] s = "nature_careers" -> <<"N","a","t","u","r","e"," ","C","a","r","e","e","r","s">>
      [] s = "euraxess" -> <<"E","U","R","A","X","E","S","S">>
      [] s = "generic_sites" -> <<"G","e","n","e","r","i","c">>

\* base
Base(s) ==
    CASE s = "findaphd" -> <<"h","t","t","p","s",":","/","/","w","w","w",".","f","i","n","d","a","p","h","d",".","c","o","m">>
      [] s = "jobs_ac_uk" -> <<"h","t","t","p","s",":","/","/","w","w","w",".","j","o","b","s",".","a","c",".","u","k">>
      [] s = "psychedelic_alpha" -> <<"h","t","t","p","s",":","/","/","j","o","b","s",".","p","s","y","c","h","e","d","e","l","i","c","a","l","p","h","a",".","c","o","m">>
      [] s = "nature_careers" -> <<"h","t","t","p","s",":","/","/","j","o","b","s",".","n","a","t","u","r","e",".","c","o","m">>
      [] s = "euraxess" -> <<"h","t","t","p","s",":","/","/","e","u","r","a","x","e","s","s",".","e","c",".","e","u","r","o","p","a",".","e","u">>

\* the test on href that lets an anchor through
href_ok(s, href) ==
    CASE s = "findaphd" -> href # <<>> /\ contains(<<"p","h","d","s">>, lower(href))
      [] s = "jobs_ac_uk" -> contains(<<"/","j","o","b","/">>, href)
      [] s = "psychedelic_alpha" -> startswith(href, <<"/","j","o","b","s">>)
      [] s = "nature_careers" -> startswith(href, <<"/","j","o","b","/">>) \/ contains(<<"/","j","o","b","/">>, href)
      [] s = "euraxess" -> contains(<<"/","j","o","b","s","/">>, href)

\* the least length of an anchor text
min_title(s) ==
    CASE s = "findaphd" -> 6
      [] s = "jobs_ac_uk" -> 6
      [] s = "psychedelic_alpha" -> 5
      [] s = "nature_careers" -> 5
      [] s = "euraxess" -> 6

\* the text handed to text_matches_keywords
search_text(s, title, context) ==
    IF s = "findaphd" THEN context \o <<" ">> \o title
    ELSE title \o <<" ">> \o context

\* the alternatives of the location pattern, in the pattern's order
loc_alts(s) ==
    CASE s = "findaphd" ->
           << <<"L","o","n","d","o","n">>, <<"O","x","f","o","r","d">>, <<"C","a","m","b","r","i","d","g","e">>, <<"B","r","i","s","t","o","l">>, <<"M","a","n","c","h","e","s","t","e","r">>,
              <<"E","d","i","n","b","u","r","g","h">>, <<"G","l","a","s","g","o","w">>, <<"B","i","r","m","i","n","g","h","a","m">>, <<"L","e","e","d","s">>, <<"U","K">>,
              <<"U","n","i","t","e","d"," ","K","i","n","g","d","o","m">> >>
      [] s = "jobs_ac_uk" ->
           << <<"L","o","n","d","o","n">>, <<"O","x","f","o","r","d">>, <<"C","a","m","b","r","i","d","g","e">>, <<"M","a","n","c","h","e","s","t","e","r">>, <<"E","d","i","n","b","u","r","g","h">>,
              <<"G","l","a","s","g","o","w">>, <<"B","i","r","m","i","n","g","h","a","m">>, <<"L","e","e","d","s">>, <<"B","r","i","s","t","o","l">>, <<"U","K">>,
              <<"U","n","i","t","e","d"," ","K","i","n","g","d","o","m">> >>
      [] s = "psychedelic_alpha" ->
           << <<"L","o","n","d","o","n">>, <<"U","K">>, <<"U","n","i","t","e","d"," ","K","i","n","g","d","o","m">>, <<"R","e","m","o","t","e">> >>
      [] s \in {"nature_careers", "euraxess"} ->
           << <<"L","o","n","d","o","n">>, <<"O","x","f","o","r","d">>, <<"C","a","m","b","r","i","d","g","e">>, <<"M","a","n","c","h","e","s","t","e","r">>, <<"E","d","i","n","b","u","r","g","h">>,
              <<"G","l","a","s","g","o","w">>, <<"B","r","i","s","t","o","l">>, <<"L","e","e","d","s">>, <<"U","K">>, <<"U","n","i","t","e","d"," ","K","i","n","g","d","o","m">> >>
      [] s = "generic_sites" ->
           << <<"L","o","n","d","o","n">>, <<"O","x","f","o","r","d">>, <<"C","a","m","b","r","i","d","g","e">>, <<"M","a","n","c","h","e","s","t","e","r">>, <<"E","d","i","n","b","u","r","g","h">>,
              <<"G","l","a","s","g","o","w">>, <<"B","r","i","s","t","o","l">>, <<"L","e","e","d","s">>, <<"U","K">>, <<"U","n","i","t","e","d"," ","K","i","n","g","d","o","m">>,
              <<"R","e","m","o","t","e">> >>

\* loc when the pattern finds nothing
default_loc(s, context, netloc) ==
    CASE s = "psychedelic_alpha" ->
           IF contains(<<"u","k">>, lower(context)) THEN <<"U","n","i","t","e","d"," ","K","i","n","g","d","o","m">>
           ELSE <<"R","e","m","o","t","e","/","U","n","k","n","o","w","n">>
      [] s = "generic_sites" ->
           IF contains(<<"u","k">>, lower(context)) \/ contains(<<".","a","c",".","u","k">>, netloc)
           THEN <<"U","n","i","t","e","d"," ","K","i","n","g","d","o","m">>
           ELSE <<"U","n","k","n","o","w","n","/","R","e","m","o","t","e">>
      [] OTHER -> <<"U","n","i","t","e","d"," ","K","i","n","g","d","o","m">>

infer_loc(s, context, netloc) ==
    LET m == re_search(loc_alts(s), context)
    IN  IF m.found THEN m.group ELSE default_loc(s, context, netloc)

\* the UK filter gone wrong: left out
uk_rejects_nothing(c, loc) == FALSE

\* `if cfg.uk_only and not looks_uk(loc): continue`
uk_rejects(c, loc) == c.uk_only /\ ~looks_uk(loc)

\* the relevance filter gone wrong: left out
unmatched_never(matched) == FALSE

\* `if not matched: continue`
unmatched(matched) == matched = <<>>

\* Item(source, title, org, location, deadline, link, matched_keywords); text
\* is the string that was searched for keywords, kept with the listing for
\* the properties below (the code does not store it)
Item(source, title, location, link, matched, text) ==
    [source |-> source, title |-> title, location |-> location, link |-> link,
     matched_keywords |-> matched, text |-> text]

\* one pass of the body of `for node in cards` / `for a in soup.find_all(...)`
\* of a keyword-driven extractor, up to the append: the listing the node
\* yields, if any
candidate(s, c, node) ==
    LET text == search_text(s, node.title, node.context)
        matched == text_matches_keywords(text, c.keywords)
        loc == infer_loc(s, node.context, <<>>)
        link == IF startswith(node.href, <<"h","t","t","p">>) THEN node.href
                ELSE Base(s) \o node.href
    IN  IF ~href_ok(s, node.href) THEN [ok |-> FALSE]
        ELSE IF Len(node.title) < min_title(s) THEN [ok |-> FALSE]
        ELSE IF unmatched(matched) THEN [ok |-> FALSE]
        ELSE IF uk_rejects(c, loc) THEN [ok |-> FALSE]
        ELSE [ok |-> TRUE,
              item |-> Item(Label(s), node.title, loc, link, matched, text)]

\* `if len(results) >= cfg.per_site: break`
cap_reached(res, c) == Len(res) >= c.per_site

\* the inner loop of a keyword-driven extractor over the nodes of one page
RECURSIVE scan(_, _, _, _, _)
scan(s, c, nodes, i, res) ==
    IF i > Len(nodes) THEN res
    ELSE LET cand == candidate(s, c, nodes[i])
         IN  IF ~cand.ok THEN scan(s, c, nodes, i + 1, res)
             ELSE LET res2 == Append(res, cand.item)
                  IN  IF cap_reached(res2, c) THEN res2
                      ELSE scan(s, c, nodes, i + 1, res2)

\* urllib.parse.urlparse(site): scheme and netloc of "scheme://netloc/path"
url_scheme(u) ==
    LET p == {i \in 1..Len(u) : u[i] = ":"}
    IN  IF p = {} THEN <<>> ELSE SubSeq(u, 1, Min(p) - 1)

url_netloc(u) ==
    LET p == {i \in 1..(Len(u) - 2) : SubSeq(u, i, i + 2) = <<":","/","/">>}
    IN  IF p = {} THEN <<>>
        ELSE LET from == Min(p) + 3
                 q == {i \in from..Len(u) : u[i] = "/"}
             IN  SubSeq(u, from, IF q = {} THEN Len(u) ELSE Min(q) - 1)

\* "{uri.scheme}://{uri.netloc}"
site_base(site) == url_scheme(site) \o <<":","/","/">> \o url_netloc(site)

\* the test on href of the generic harvester
JobWords ==
    << <<"/","j","o","b">>, <<"v","a","c","a","n","c">>, <<"o","p","p","o","r","t","u","n","i","t">>, <<"c","a","r","e","e","r","s">>, <<"/","p","o","s","i","t","i","o","n","s">>,
       <<"/","r","e","c","r","u","i","t">>, <<"/","j","o","b","s">> >>

generic_href_ok(href) ==
    \E w \in DOMAIN JobWords : contains(JobWords[w], lower(href))

\* one pass of the body of `for a in anchors` of scrape_generic_sites, up to
\* the append.  urljoin(base, href) is modelled for an href that starts with
\* "/", which it resolves against the origin.
generic_candidate(c, site, node) ==
    LET href == strip(node.href)
        text == node.title \o <<" ">> \o node.context
        matched == text_matches_keywords(text, c.keywords)
        org_guess == url_netloc(site)
        loc == infer_loc("generic_sites", node.context, org_guess)
        link == IF startswith(href, <<"h","t","t","p">>) THEN href ELSE site_base(site) \o href
    IN  IF Len(node.title) < 5 THEN [ok |-> FALSE]
        ELSE IF ~generic_href_ok(href) THEN [ok |-> FALSE]
        ELSE IF unmatched(matched) THEN [ok |-> FALSE]
        ELSE IF uk_rejects(c, loc) THEN [ok |-> FALSE]
        ELSE [ok |-> TRUE,
              item |-> Item(Label("generic_sites"), node.title, loc, link, matched, text)]

\* the loop over the anchors of one site: count is per site
RECURSIVE scan_generic(_, _, _, _, _, _)
scan_generic(c, site, nodes, i, res, count) ==
    IF i > Len(nodes) THEN res
    ELSE LET cand == generic_candidate(c, site, nodes[i])
         IN  IF ~cand.ok THEN scan_generic(c, site, nodes, i + 1, res, count)
             ELSE IF count + 1 >= c.per_site THEN Append(res, cand.item)
             ELSE scan_generic(c, site, nodes, i + 1, Append(res, cand.item), count + 1)

\* an iteration gone wrong: a failed request loses the listings so far
iteration_failure_resets(s, c, k, res, html_text) ==
    IF falsy(html_text) THEN <<>>
    ELSE IF s = "generic_sites"
         THEN scan_generic(c, c.generic_sites[k], html_text.nodes, 1, res, 0)
         ELSE scan(s, c, html_text.nodes, 1, res)

\* one iteration of `for kw in cfg.keywords` (of `for site in cfg.generic_sites`)
\* after http_get: the value of results at the end of the iteration
iteration(s, c, k, res, html_text) ==
    IF falsy(html_text) THEN res
    ELSE IF s = "generic_sites"
         THEN scan_generic(c, c.generic_sites[k], html_text.nodes, 1, res, 0)
         ELSE scan(s, c, html_text.nodes, 1, res)

\* what an iteration does besides: the request (with the page it got, "none"
\* when html_text is None or empty), and time.sleep(0.6) unless the iteration
\* ended at `continue`
GetEvent(s, k, page, ok) == [op |-> "get", source |-> s, key |-> k, page |-> page, ok |-> ok]

SleepEvent(s) == [op |-> "sleep", source |-> s, key |-> 0, page |-> "none", ok |-> TRUE]

iteration_events(s, k, page, html_text) ==
    IF falsy(html_text) THEN <<GetEvent(s, k, "none", FALSE)>>
    ELSE <<GetEvent(s, k, page, TRUE), SleepEvent(s)>>

(***************************************************************************)
(* The environment: the configuration file and what the sites answer.      *)
(***************************************************************************)
Range(f) == {f[i] : i \in DOMAIN f}

SeqsUpTo(S, n) == UNION {[1..m -> S] : m \in 0..n}

\* the increasing sequences of positions 1..n, of length at most m
RECURSIVE Picks(_, _)
Picks(n, m) ==
    IF n = 0 \/ m = 0 THEN {<<>>}
    ELSE Picks(n - 1, m) \cup {Append(p, n) : p \in Picks(n - 1, m - 1)}

\* keywords as written in config.yaml, before strip() and lower(); a list of
\* the file takes some of them, in this order
RawKeywords == << <<"M","R","I"," ">>, <<" ","f","M","R","I">>, <<" ">> >>

RawKeywordLists ==
    {[i \in 1..Len(p) |-> RawKeywords[p[i]]] : p \in Picks(Len(RawKeywords), MaxKeywords)}

SitePool == { <<"h","t","t","p","s",":","/","/","a",".","a","c",".","u","k","/","v">>, <<"h","t","t","p",":","/","/","b",".","o","r","g","/","c">> }

\* lists of source identifiers: none, one, or two that gather_results calls
\* one after the other, in either order
SourceLists ==
    {<<>>} \cup {<<a>> : a \in Range(ExtractorOrder)}
           \cup {<<ExtractorOrder[i], ExtractorOrder[i + 1]>> : i \in 1..(Len(ExtractorOrder) - 1)}
           \cup {<<ExtractorOrder[i + 1], ExtractorOrder[i]>> : i \in 1..(Len(ExtractorOrder) - 1)}

AllRawConfigs ==
    [keywords : RawKeywordLists,
     include_uk_only : BOOLEAN,
     per_site : 1..MaxPerSite,
     total : (0 - 1)..MaxTotal,
     sources : SourceLists,
     generic_sites : SeqsUpTo(SitePool, MaxSites)]

\* candidate nodes of the pages the sites serve
RelHref(s, d) ==
    (CASE s = "findaphd" -> <<"/","p","h","d","s","/">>
       [] s \in {"jobs_ac_uk", "nature_careers"} -> <<"/","j","o","b","/">>
       [] OTHER -> <<"/","j","o","b","s","/">>) \o d

AbsHref == <<"h","t","t","p",":","/","/","x",".","o","r","g","/","j","o","b","s","/","j","o","b","/","p","h","d","s">>

Node(href, title, context) == [href |-> href, title |-> title, context |-> context]

NodeAbout == Node(<<"/","a","b","o","u","t">>, <<"f","M","R","I"," ","t","e","a","m">>, <<"f","M","R","I"," ","t","e","a","m"," ","L","o","n","d","o","n">>)

NodeShort(s) == Node(RelHref(s, <<"9">>), <<"M","R","I">>, <<"M","R","I"," ","L","o","n","d","o","n">>)

NodeLondon(s) == Node(RelHref(s, <<"1">>), <<"f","M","R","I"," ","P","h","D">>, <<"f","M","R","I"," ","P","h","D",","," ","L","O","N","D","O","N">>)

NodeOxford(s) == Node(RelHref(s, <<"2">>), <<"M","R","I"," ","p","o","s","t">>, <<"M","R","I"," ","p","o","s","t"," ","O","x","f","o","r","d">>)

NodeNoise(s) == Node(RelHref(s, <<"3">>), <<"B","r","a","i","n"," ","R","A">>, <<"B","r","a","i","n"," ","R","A"," ","L","e","e","d","s">>)

NodeRemote(s) ==
    Node(IF s = "psychedelic_alpha" THEN RelHref(s, <<"4">>) ELSE AbsHref,
         <<"M","R","I"," ","j","o","b">>, <<"M","R","I"," ","j","o","b"," ","R","e","m","o","t","e">>)

NodePlain(s) == Node(RelHref(s, <<"1">>), <<"M","R","I"," ","r","o","l","e">>, <<"M","R","I"," ","r","o","l","e">>)

PageA(s) == << NodeAbout, NodeLondon(s), NodeOxford(s) >>

PageB(s) == << NodeShort(s), NodeNoise(s), NodeRemote(s), NodePlain(s) >>

\* what requests.get may do for a request of extractor s
Responses(s) ==
    {[exc |-> TRUE, status |-> 0, page |-> "none", text |-> Text(TRUE, <<>>)],
     [exc |-> FALSE, status |-> 404, page |-> "A", text |-> Text(FALSE, PageA(s))],
     [exc |-> FALSE, status |-> 200, page |-> "none", text |-> Text(TRUE, <<>>)],
     [exc |-> FALSE, status |-> 200, page |-> "A", text |-> Text(FALSE, PageA(s))],
     [exc |-> FALSE, status |-> 200, page |-> "B", text |-> Text(FALSE, PageB(s))]}

(***************************************************************************)
(* config                                                                  *)
(***************************************************************************)
NoConfig ==
    [keywords |-> <<>>, uk_only |-> TRUE, per_site |-> 0, total |-> 0,
     sources |-> <<>>, generic_sites |-> <<>>]

\* load_config, for a config.yaml that exists and sets every field
load_config(raw) ==
    LET nonblank(k) == strip(k) # <<>>
        kept == SelectSeq(raw.keywords, nonblank)
    IN  [keywords |-> [i \in 1..Len(kept) |-> lower(strip(kept[i]))],
         uk_only |-> raw.include_uk_only,
         per_site |-> raw.per_site,
         total |-> raw.total,
         sources |-> raw.sources,
         generic_sites |-> raw.generic_sites]

(***************************************************************************)
(* email rendering                                                         *)
(***************************************************************************)
escape_char(c) ==
    CASE c = "&" -> <<"&","a","m","p",";">>
      [] c = "<" -> <<"&","l","t",";">>
      [] c = ">" -> <<"&","g","t",";">>
      [] c = "\"" -> <<"&","q","u","o","t",";">>
      [] c = "'" -> <<"&","#","x","2","7",";">>
      [] OTHER -> <<c>>

\* html.escape(s)
RECURSIVE html_escape(_)
html_escape(s) ==
    IF s = <<>> THEN <<>> ELSE escape_char(Head(s)) \o html_escape(Tail(s))

\* the block appended for one listing
DetailBlock(it) ==
    [kind |-> "listing", title |-> html_escape(it.title),
     source |-> html_escape(it.source), location |-> html_escape(it.location),
     link |-> html_escape(it.link), total |-> 0, london_hits |-> 0]

Part(kind) ==
    [kind |-> kind, title |-> <<>>, source |-> <<>>, location |-> <<>>,
     link |-> <<>>, total |-> 0, london_hits |-> 0]

\* the London count gone wrong: no lower()
london_hits_case_sensitive(its) ==
    Cardinality({i \in 1..Len(its) : contains(<<"l","o","n","d","o","n">>, its[i].location)})

\* `sum(1 for it in items if "london" in (it.location or "").lower())`
london_hits(its) ==
    Cardinality({i \in 1..Len(its) : contains(<<"l","o","n","d","o","n">>, lower(its[i].location))})

\* the parts of the body of build_html_email, up to the quick links
build_html_email(its) ==
    <<Part("header")>>
    \o [i \in 1..Len(its) |-> DetailBlock(its[i])]
    \o (IF Len(its) = 0 THEN <<Part("no_matches")>> ELSE <<>>)
    \o <<[Part("summary") EXCEPT !.total = Len(its), !.london_hits = london_hits(its)]>>
    \o <<Part("quick_links")>>

(***************************************************************************)
(* The run of main().                                                      *)
(***************************************************************************)
\* the test that guards the call of extractor s in gather_results
enabled(s, c) ==
    /\ s \in Range(c.sources)
    /\ s = "generic_sites" => c.generic_sites # <<>>

\* what extractor s iterates over
keys(s, c) == IF s = "generic_sites" THEN c.generic_sites ELSE c.keywords

\* gather_results, lines 332-343: the position in ExtractorOrder, from i on,
\* of the first extractor that is called and makes a request; past the end
\* when there is none
next_extractor(c, i) ==
    LET called == {j \in i..Len(ExtractorOrder) :
                      enabled(ExtractorOrder[j], c) /\ keys(ExtractorOrder[j], c) # <<>>}
    IN  IF called = {} THEN Len(ExtractorOrder) + 1 ELSE Min(called)

\* the number of requests of a run
RECURSIVE requests_from(_, _)
requests_from(c, i) ==
    IF i > Len(ExtractorOrder) THEN 0
    ELSE (IF enabled(ExtractorOrder[i], c) THEN Len(keys(ExtractorOrder[i], c)) ELSE 0)
         + requests_from(c, i + 1)

\* the configuration files of the model: a site list is given only with the
\* generic harvester among the sources, and the run makes at most
\* MaxRequests requests
RawConfigs ==
    {raw \in AllRawConfigs :
        /\ raw.generic_sites # <<>> => "generic_sites" \in Range(raw.sources)
        /\ requests_from(load_config(raw), 1) <= MaxRequests}

Init ==
    /\ pc = "load_config"
    /\ cfg = NoConfig
    /\ src = 1
    /\ kw = 1
    /\ results = <<>>
    /\ items = <<>>
    /\ ranked = <<>>
    /\ email = <<>>
    /\ trace = <<>>
    /\ err = "none"

\* main, line 415: config.yaml is read; gather_results starts
LoadConfig ==
    /\ pc = "load_config"
    /\ \E raw \in RawConfigs :
          /\ cfg' = load_config(raw)
          /\ src' = next_extractor(load_config(raw), 1)
    /\ pc' = "gather"
    /\ UNCHANGED <<kw, results, items, ranked, email, trace, err>>

\* load_config, lines 38-39: config.yaml does not exist
LoadConfigMissing ==
    /\ pc = "load_config"
    /\ pc' = "error"
    /\ err' = "config.yaml not found"
    /\ UNCHANGED <<cfg, src, kw, results, items, ranked, email, trace>>

\* one iteration of the loop of extractor s: request, extraction, sleep; after
\* the last one the extractor returns, gather_results extends items and goes
\* on to the next extractor
Scrape(s) ==
    /\ pc = "gather"
    /\ src <= Len(ExtractorOrder)
    /\ ExtractorOrder[src] = s
    /\ kw <= Len(keys(s, cfg))
    /\ \E r \in Responses(s) :
          LET res == iteration(s, cfg, kw, IF kw = 1 THEN <<>> ELSE results, http_get(r))
          IN  /\ results' = res
              /\ trace' = trace \o iteration_events(s, kw, r.page, http_get(r))
              /\ IF kw = Len(keys(s, cfg))
                 THEN /\ items' = items \o res
                      /\ src' = next_extractor(cfg, src + 1)
                      /\ kw' = 1
                 ELSE /\ kw' = kw + 1
                      /\ UNCHANGED <<items, src>>
    /\ UNCHANGED <<pc, cfg, ranked, email, err>>

scrape_findaphd == Scrape("findaphd")

scrape_jobs_ac_uk == Scrape("jobs_ac_uk")

scrape_psychedelic_alpha == Scrape("psychedelic_alpha")

scrape_nature_careers == Scrape("nature_careers")

scrape_euraxess == Scrape("euraxess")

scrape_generic_sites == Scrape("generic_sites")

\* gather_results, lines 345-349, returns the ranked listings; main, line 419,
\* renders them
RankAndRender ==
    /\ pc = "gather"
    /\ src > Len(ExtractorOrder)
    /\ ranked' = rank(items, cfg.total)
    /\ email' = build_html_email(rank(items, cfg.total))
    /\ pc' = "send_email"
    /\ UNCHANGED <<cfg, src, kw, results, items, trace, err>>

SendEvent == [op |-> "send", source |-> "smtp", key |-> 0, page |-> "none", ok |-> TRUE]

\* send_email: both credentials are set and yagmail sends the message
SendEmail ==
    /\ pc = "send_email"
    /\ pc' = "done"
    /\ trace' = Append(trace, SendEvent)
    /\ UNCHANGED <<cfg, src, kw, results, items, ranked, email, err>>

\* send_email, lines 406-407: EMAIL_USERNAME or EMAIL_PASSWORD is not set
SendEmailNoCredentials ==
    /\ pc = "send_email"
    /\ pc' = "error"
    /\ err' = "Missing EMAIL_USERNAME or EMAIL_PASSWORD"
    /\ UNCHANGED <<cfg, src, kw, results, items, ranked, email, trace>>

\* send_email, lines 409-410: the mail transport raises
SendEmailFails ==
    /\ pc = "send_email"
    /\ pc' = "error"
    /\ err' = "send failed"
    /\ trace' = Append(trace, SendEvent)
    /\ UNCHANGED <<cfg, src, kw, results, items, ranked, email>>

Next ==
    \/ LoadConfig
    \/ LoadConfigMissing
    \/ scrape_findaphd
    \/ scrape_jobs_ac_uk
    \/ scrape_psychedelic_alpha
    \/ scrape_nature_careers
    \/ scrape_euraxess
    \/ scrape_generic_sites
    \/ RankAndRender
    \/ SendEmail
    \/ SendEmailNoCredentials
    \/ SendEmailFails

Spec == Init /\ [][Next]_vars

(***************************************************************************)
(* Properties.                                                             *)
(***************************************************************************)
\* gather_results has returned and the digest is rendered
Returned == pc = "send_email"

\* every listing there is
Listings == Range(results) \cup Range(items) \cup Range(ranked)

\* the position in its of the first listing with this link
FirstPos(its, link) == Min({n \in DOMAIN its : its[n].link = link})

IsGet(e) == e.op = "get"

\* the requests so far
Gets == SelectSeq(trace, IsGet)

\* C1: the result of gather_results holds no two listings with the same
\* link; each listing it holds is the first one with its link in the
\* concatenated output of the extractors; and when nothing is truncated,
\* every link of that output is in the result.
C1_DedupeFirstWins ==
    Returned =>
        /\ \A i, j \in DOMAIN ranked : i # j => ranked[i].link # ranked[j].link
        /\ \A i \in DOMAIN ranked :
              /\ \E n \in DOMAIN items : items[n].link = ranked[i].link
              /\ ranked[i] = items[FirstPos(items, ranked[i].link)]
        /\ cfg.total = 0 =>
              \A n \in DOMAIN items : \E i \in DOMAIN ranked : ranked[i].link = items[n].link

\* two sources gave a listing with the same link, and the result holds the first
C1_Witness ==
    /\ Returned
    /\ \E m, n \in DOMAIN items :
          /\ m < n
          /\ items[m].link = items[n].link
          /\ items[m].source # items[n].source
          /\ \E i \in DOMAIN ranked : ranked[i] = items[m]

\* the order of the calls in gather_results, lines 332-343
FixedRank(s) ==
    CASE s = "findaphd" -> 1
      [] s = "jobs_ac_uk" -> 2
      [] s = "psychedelic_alpha" -> 3
      [] s = "nature_careers" -> 4
      [] s = "euraxess" -> 5
      [] s = "generic_sites" -> 6

LabelRank(label) ==
    CASE label = <<"F","i","n","d","A","P","h","D">> -> 1
      [] label = <<"j","o","b","s",".","a","c",".","u","k">> -> 2
      [] label = <<"P","s","y","c","h","e","d","e","l","i","c"," ","A","l","p","h","a">> -> 3
      [] label = <<"N","a","t","u","r","e"," ","C","a","r","e","e","r","s">> -> 4
      [] label = <<"E","U","R","A","X","E","S","S">> -> 5
      [] label = <<"G","e","n","e","r","i","c">> -> 6

RanksBefore(a, b) ==
    LET la == london_bias_score(a.location)
        lb == london_bias_score(b.location)
        na == Len(a.matched_keywords)
        nb == Len(b.matched_keywords)
    IN  \/ la > lb
        \/ la = lb /\ na > nb
        \/ la = lb /\ na = nb /\ str_lt(a.source, b.source)

\* C3: in the result of gather_results no listing ranks strictly before an
\* earlier one, and listings of equal rank keep the order of their first
\* occurrence in the concatenated output (the order after deduplication).
C3_RankedStable ==
    Returned =>
        \A i, j \in DOMAIN ranked :
            i < j =>
                /\ ~RanksBefore(ranked[j], ranked[i])
                /\ ~RanksBefore(ranked[i], ranked[j]) =>
                      FirstPos(items, ranked[i].link) < FirstPos(items, ranked[j].link)

\* the result holds two listings of equal rank, and two that the sort exchanged
C3_Witness ==
    /\ Returned
    /\ \E i, j \in DOMAIN ranked :
          i < j /\ ~RanksBefore(ranked[i], ranked[j])
    /\ \E i, j \in DOMAIN ranked :
          i < j /\ FirstPos(items, ranked[j].link) < FirstPos(items, ranked[i].link)

\* C4 as claimed: with cap N and M deduplicated listings the result has at
\* most N listings and is the first min(M, N) of the ranked order; with cap 0
\* it is the whole ranked order.
C4_CapAsClaimed ==
    Returned =>
        LET full == sort_items(dedupe(items))
            M == Len(full)
            N == cfg.total
        IN  IF N = 0 THEN ranked = full
            ELSE /\ Len(ranked) <= N
                 /\ ranked = SubSeq(full, 1, IF M < N THEN M ELSE N)

\* C4, amended: the claim holds for every cap N >= 0; a negative cap N drops
\* the last -N listings of the ranked order.
C4_Cap ==
    Returned =>
        LET full == sort_items(dedupe(items))
            M == Len(full)
            N == cfg.total
        IN  /\ N = 0 => ranked = full
            /\ N > 0 => Len(ranked) <= N /\ ranked = SubSeq(full, 1, IF M < N THEN M ELSE N)
            /\ N < 0 => ranked = SubSeq(full, 1, IF M + N > 0 THEN M + N ELSE 0)

\* more deduplicated listings than the cap allows
C4_Witness ==
    /\ Returned
    /\ cfg.total > 0
    /\ Len(dedupe(items)) > cfg.total
    /\ Len(ranked) = cfg.total

\* C5 as claimed: when the run aborts because config.yaml or a credential is
\* missing, no request has been made at any earlier point of the run.
C5_NoRequestBeforeAbort ==
    err \in {"config.yaml not found", "Missing EMAIL_USERNAME or EMAIL_PASSWORD"} =>
        pc = "error" /\ Gets = <<>>

\* the step is an iteration whose request failed
FailedRequest ==
    /\ Len(trace') = Len(trace) + 1
    /\ trace'[Len(trace')].op = "get"
    /\ ~trace'[Len(trace')].ok

\* C6: when gather_results returns, every keyword (site) of every extractor
\* called has been requested exactly once and nothing else has; an iteration
\* whose request fails adds no listing, leaves the listings so far as they
\* are, raises nothing and goes on to the next keyword (site) or returns, as
\* it would after a page without candidates.
C6_FailureIsolated ==
    /\ [](Returned =>
            /\ \A s \in Range(ExtractorOrder) :
                  \A k \in 1..Len(keys(s, cfg)) :
                      enabled(s, cfg) =>
                          Cardinality({i \in DOMAIN Gets :
                                          Gets[i].source = s /\ Gets[i].key = k}) = 1
            /\ \A i \in DOMAIN Gets :
                  /\ enabled(Gets[i].source, cfg)
                  /\ Gets[i].key \in 1..Len(keys(Gets[i].source, cfg)))
    /\ [][FailedRequest =>
            LET s == ExtractorOrder[src]
                before == IF kw = 1 THEN <<>> ELSE results
            IN  /\ results' = before
                /\ results' = scan(s, cfg, <<>>, 1, before)
                /\ pc' = "gather" /\ err' = "none"
                /\ IF kw = Len(keys(s, cfg))
                   THEN items' = items \o before /\ kw' = 1 /\ src' > src
                   ELSE items' = items /\ kw' = kw + 1 /\ src' = src]_vars

\* a request failed, a later request of the same extractor succeeded, and the
\* extractor returned listings
C6_Witness ==
    /\ Returned
    /\ \E i, j \in DOMAIN Gets :
          /\ i < j
          /\ ~Gets[i].ok
          /\ Gets[j].ok
          /\ Gets[i].source = Gets[j].source
          /\ \E n \in DOMAIN items : items[n].source = Label(Gets[i].source)

\* C7 as claimed: a keyword-driven extractor never holds more than
\* cfg.per_site listings.
C7_PerSourceCap ==
    \A n \in DOMAIN results :
        results[n].source # Label("generic_sites") => Len(results) <= cfg.per_site

\* C8: with cfg.uk_only set, the location of every listing passes looks_uk,
\* and is none of "Remote", "Unknown/Remote", "Remote/Unknown".
C8_UkOnly ==
    cfg.uk_only =>
        \A it \in Listings :
            /\ looks_uk(it.location)
            /\ lower(it.location) \notin
                  { <<"r","e","m","o","t","e">>, <<"u","n","k","n","o","w","n","/","r","e","m","o","t","e">>, <<"r","e","m","o","t","e","/","u","n","k","n","o","w","n">> }

\* with cfg.uk_only set, Psychedelic Alpha served the page with the remote
\* job while "mri" was a keyword, and returned listings of another page
C8_Witness ==
    /\ Returned
    /\ cfg.uk_only
    /\ cfg.keywords # <<>>
    /\ cfg.keywords[1] = <<"m","r","i">>
    /\ \E i \in DOMAIN Gets : Gets[i].source = "psychedelic_alpha" /\ Gets[i].page = "B"
    /\ \E n \in DOMAIN items : items[n].source = Label("psychedelic_alpha")

\* keyword k occurs in text t
Occurs(k, t) ==
    \E i \in 1..Len(t) : i + Len(k) - 1 <= Len(t) /\ SubSeq(t, i, i + Len(k) - 1) = k

\* C9: the matched keywords of every listing are not empty and are the
\* keywords of cfg.keywords, in its order, that occur in the lower-cased text
\* that was searched; with no keyword configured there is no listing.
C9_MatchedKeywords ==
    /\ \A it \in Listings :
          LET idx == {i \in DOMAIN cfg.keywords : Occurs(cfg.keywords[i], lower(it.text))}
              nth(n) == CHOOSE i \in idx : Cardinality({x \in idx : x <= i}) = n
          IN  /\ it.matched_keywords # <<>>
              /\ Len(it.matched_keywords) = Cardinality(idx)
              /\ \A n \in DOMAIN it.matched_keywords :
                    it.matched_keywords[n] = cfg.keywords[nth(n)]
    /\ cfg.keywords = <<>> => Listings = {}

\* two keywords are configured; one listing matched both, another only one
C9_Witness ==
    /\ Len(cfg.keywords) = 2
    /\ \E a, b \in Range(items) :
          Len(a.matched_keywords) = 2 /\ Len(b.matched_keywords) = 1

IsListing(p) == p.kind = "listing"

\* C10: the body has one detail block per listing, in the order of the
\* listings; one summary, with the number of listings and the number of
\* those whose London score is 1; the "no matches" notice exactly when there
\* is no listing; and a run without a listing from any extractor renders so.
C10_Digest ==
    Returned =>
        LET blocks == SelectSeq(email, IsListing)
        IN  /\ Len(blocks) = Len(ranked)
            /\ \A i \in DOMAIN ranked :
                  /\ blocks[i].link = html_escape(ranked[i].link)
                  /\ blocks[i].title = html_escape(ranked[i].title)
                  /\ email[i + 1] = blocks[i]
            /\ Cardinality({i \in DOMAIN email : email[i].kind = "summary"}) = 1
            /\ \A i \in DOMAIN email :
                  email[i].kind = "summary" =>
                      /\ email[i].total = Len(ranked)
                      /\ email[i].london_hits =
                            Cardinality({n \in DOMAIN ranked :
                                            london_bias_score(ranked[n].location) = 1})
            /\ (\E i \in DOMAIN email : email[i].kind = "no_matches") <=> ranked = <<>>
            /\ items = <<>> => ranked = <<>>

\* a digest of several listings, some in London and some not
C10_Witness ==
    /\ Returned
    /\ \E i, j \in DOMAIN ranked :
          /\ london_bias_score(ranked[i].location) = 1
          /\ london_bias_score(ranked[j].location) = 0

\* C11 as claimed: between two successive requests of the same extractor
\* (successive keywords, or successive generic sites) the extractor sleeps,
\* whether the first request succeeded or failed.
C11_DelayBetweenRequests ==
    \A i, j \in DOMAIN trace :
        /\ i < j
        /\ trace[i].op = "get" /\ trace[j].op = "get"
        /\ trace[i].source = trace[j].source
        /\ trace[j].key = trace[i].key + 1
        => \E m \in (i + 1)..(j - 1) :
              trace[m].op = "sleep" /\ trace[m].source = trace[i].source

=============================================================================
